---- MODULE Spec2Model ----
(***************************************************************************)
(* Model of the two programs of the repository:                            *)
(*   enrich_exp_new.py        the batch enrichment pipeline (Spec)         *)
(*   weatherAPI_githubUser.py the two proxy request handlers (ProxySpec)   *)
(*                                                                         *)
(* Python values are tagged records: None, strings, numbers (fractions     *)
(* n/d), lists and dicts (a dict carries the set of keys it has).  A       *)
(* function either returns a (value, error) pair or raises.                *)
(***************************************************************************)
EXTENDS Integers, Sequences, FiniteSets, TLC

VARIABLES rows, idx, pc, errors, geo, weather, fx,
          geo_ans, weather_ans, fx_ans, geo_ret, weather_ret, fx_ret,
          enriched_rows, calls, slept, output, exit_code,
          req

batch_vars == <<rows, idx, pc, errors, geo, weather, fx,
                geo_ans, weather_ans, fx_ans, geo_ret, weather_ret, fx_ret,
                enriched_rows, calls, slept, output, exit_code>>

vars == <<rows, idx, pc, errors, geo, weather, fx,
          geo_ans, weather_ans, fx_ans, geo_ret, weather_ret, fx_ret,
          enriched_rows, calls, slept, output, exit_code, req>>

(* ------------------------------ bounds -------------------------------- *)

\* longest input file, in records
MaxRows == 2

\* number of proxy requests in flight at once
MaxReq == 2

(* --------------------------- Python values ---------------------------- *)

None == [tag |-> "None"]

Str(s) == [tag |-> "str", s |-> s]

\* the number n/d
Num(n, d) == [tag |-> "num", n |-> n, d |-> d]

List(items) == [tag |-> "list", items |-> items]

EmptyDict == [tag |-> "dict", keys |-> {}]

\* Python truth value: None, "", 0, [] and {} are false
Truthy(v) ==
    CASE v.tag = "None" -> FALSE
      [] v.tag = "str"  -> v.s # ""
      [] v.tag = "num"  -> v.n # 0
      [] v.tag = "list" -> v.items # <<>>
      [] v.tag = "dict" -> v.keys # {}

\* dict.get(key): the value, or None when the key is absent
Get(d, key) == IF key \in d.keys THEN d[key] ELSE None

\* a function's outcome: a returned (value, error) pair, or an exception
Ret(val, err) == [tag |-> "ret", val |-> val, err |-> err]

Raise(exc) == [tag |-> "raise", exc |-> exc]

RECURSIVE Gcd(_, _)
Gcd(a, b) == IF b = 0 THEN a ELSE Gcd(b, a % b)

\* the quotient taken as a product
Quotient_product(a, b) == Num(a.n * b.n, a.d * b.d)

\* float(a) / float(b) for non-negative a and positive b, in lowest terms
Quotient(a, b) ==
    IF a.n = 0 THEN Num(0, 1)
    ELSE LET n == a.n * b.d
             d == a.d * b.n
             g == Gcd(n, d)
         IN  Num(n \div g, d \div g)

(* ------------------- what the services may answer --------------------- *)

\* an answer handed to session.get: an exception (a connection failure,
\* raise_for_status on a 4xx/5xx, a body that does not parse; the one except
\* clause of safe_get takes them all alike), or a 2xx answer whose body
\* parsed as the JSON value `json`
Exc(msg) == [tag |-> "exc", msg |-> msg]

Ok(json) == [tag |-> "ok", json |-> json]

ExcAnswers == {Exc("HTTPError")}

\* JSON bodies that are not objects: null, a non-empty array, a number
NonObjects == {None, List(<<Num(1, 1)>>), Num(1, 1)}

Place == [tag |-> "dict", keys |-> {"latitude", "longitude"},
          latitude |-> Num(51, 1), longitude |-> Num(0, 1)]

GeoObjects ==
    { [tag |-> "dict", keys |-> {"generationtime_ms"}, results |-> None],
      [tag |-> "dict", keys |-> {"results"}, results |-> List(<<>>)],
      [tag |-> "dict", keys |-> {"results"}, results |-> List(<<EmptyDict>>)],
      [tag |-> "dict", keys |-> {"results"}, results |-> List(<<Str("London")>>)],
      [tag |-> "dict", keys |-> {"results"}, results |-> List(<<Place>>)] }

GeoAnswers == ExcAnswers \cup {Ok(j) : j \in NonObjects \cup GeoObjects}

Snapshot == [tag |-> "dict", keys |-> {"temperature", "windspeed"},
             temperature |-> Num(18, 1), windspeed |-> Num(4, 1)]

WeatherObjects ==
    { [tag |-> "dict", keys |-> {"latitude"}, current_weather |-> None],
      [tag |-> "dict", keys |-> {"current_weather"}, current_weather |-> EmptyDict],
      [tag |-> "dict", keys |-> {"current_weather"}, current_weather |-> Str("sunny")],
      [tag |-> "dict", keys |-> {"current_weather"}, current_weather |-> Snapshot] }

WeatherAnswers == ExcAnswers \cup {Ok(j) : j \in NonObjects \cup WeatherObjects}

Info(rate) == [tag |-> "dict", keys |-> {"rate"}, rate |-> rate]

\* the converted amounts and the explicit rates a body may carry; "n/a" is
\* a converted amount float() does not take
Results == {Num(0, 1), Num(120, 1), Str("n/a")}

Rates == {Num(6, 5)}

FxObjects ==
    { [tag |-> "dict", keys |-> {"success"}, result |-> None, info |-> None] }
    \cup { [tag |-> "dict", keys |-> {"result"}, result |-> r, info |-> None]
           : r \in Results }
    \cup { [tag |-> "dict", keys |-> {"info"}, result |-> None, info |-> Info(q)]
           : q \in Rates }
    \cup { [tag |-> "dict", keys |-> {"result", "info"}, result |-> r, info |-> Info(q)]
           : r \in Results, q \in Rates }
    \cup { [tag |-> "dict", keys |-> {"result", "info"}, result |-> Num(120, 1),
            info |-> Str("n/a")] }

FxAnswers == ExcAnswers \cup {Ok(j) : j \in NonObjects \cup FxObjects}

\* the amounts an input record may carry (Decimal(row["amount"]))
Amounts == {Num(0, 1), Num(100, 1)}

(* ------------------------------ helpers ------------------------------- *)

\* safe_get: every exception becomes (None, str(e)); otherwise (json, None)
safe_get(answer) ==
    IF answer.tag = "exc" THEN Ret(None, Str(answer.msg))
    ELSE Ret(answer.json, None)

\* geocode_city: `"results" not in data` raises on a number and is true of
\* an array that does not hold the string "results"
geocode_city(answer) ==
    LET r    == safe_get(answer)
        data == r.val
    IN  IF Truthy(r.err) THEN Ret(None, r.err)
        ELSE IF ~Truthy(data) THEN Ret(None, Str("No geocode results"))
        ELSE IF data.tag = "num" THEN Raise("TypeError")
        ELSE IF data.tag = "list" THEN Ret(None, Str("No geocode results"))
        ELSE IF "results" \notin data.keys \/ ~Truthy(data.results)
             THEN Ret(None, Str("No geocode results"))
        ELSE Ret(data.results.items[1], None)

\* get_weather: data.get raises when the body is not an object
get_weather(answer) ==
    LET r    == safe_get(answer)
        data == r.val
    IN  IF Truthy(r.err) THEN Ret(None, r.err)
        ELSE IF data.tag # "dict" THEN Raise("AttributeError")
        ELSE Ret(Get(data, "current_weather"), None)

\* convert_fx_to_usd failing only when the amount and the rate are both
\* missing (`and` for the `or` of line 70)
convert_fx_to_usd_and(answer, amount) ==
    LET r    == safe_get(answer)
        data == r.val
    IN  IF Truthy(r.err) THEN Ret(None, r.err)
        ELSE IF Truthy(data) /\ data.tag # "dict" THEN Raise("AttributeError")
        ELSE
          LET d      == IF Truthy(data) THEN data ELSE EmptyDict
              result == Get(d, "result")
              got    == Get(d, "info")
              info   == IF Truthy(got) THEN got ELSE EmptyDict
          IN  IF info.tag # "dict" THEN Raise("AttributeError")
              ELSE
          LET rate0  == Get(info, "rate")
              rate   == IF rate0 = None /\ result # None
                        THEN IF result.tag # "num" \/ amount.n = 0
                             THEN None
                             ELSE Quotient(result, amount)
                        ELSE rate0
          IN  IF result = None /\ rate = None
              THEN Ret(None, [tag |-> "str", s |-> "FX conversion failed: ", data |-> data])
              ELSE Ret([tag |-> "dict", keys |-> {"fx_rate_to_usd", "amount_usd"},
                        fx_rate_to_usd |-> rate, amount_usd |-> result], None)

\* the body of convert_fx_to_usd after the call: (data or {}).get raises
\* when the body is a true value that is not an object, and info.get when
\* "info" is one
convert_fx_to_usd(answer, amount) ==
    LET r    == safe_get(answer)
        data == r.val
    IN  IF Truthy(r.err) THEN Ret(None, r.err)
        ELSE IF Truthy(data) /\ data.tag # "dict" THEN Raise("AttributeError")
        ELSE
          LET d      == IF Truthy(data) THEN data ELSE EmptyDict
              result == Get(d, "result")
              got    == Get(d, "info")
              info   == IF Truthy(got) THEN got ELSE EmptyDict
          IN  IF info.tag # "dict" THEN Raise("AttributeError")
              ELSE
          LET rate0  == Get(info, "rate")
              rate   == IF rate0 = None /\ result # None
                        THEN IF result.tag # "num" \/ amount.n = 0
                             THEN None   \* ValueError, ZeroDivisionError: passed
                             ELSE Quotient(result, amount)
                        ELSE rate0
          IN  IF result = None \/ rate = None
              THEN Ret(None, [tag |-> "str", s |-> "FX conversion failed: ", data |-> data])
              ELSE Ret([tag |-> "dict", keys |-> {"fx_rate_to_usd", "amount_usd"},
                        fx_rate_to_usd |-> rate, amount_usd |-> result], None)

(* ------------------------ the batch pipeline -------------------------- *)

\* the input file: city names are taken distinct, so that an output row
\* names the input record it was made from
Row(i, amount) == [city |-> i, country_code |-> "GB", local_currency |-> "GBP",
                   amount |-> amount]

Inputs == UNION { [1..n -> Amounts] : n \in 0..MaxRows }

\* no lookup made yet for the record at hand
Unset == [tag |-> "unset"]

\* where the for loop of main goes after record i: the next record, or the
\* statements after the loop
AfterRecord(i) == IF i < Len(rows) THEN "geocode" ELSE "write"

\* f"{step}: {err}"
Message(step, err) == [step |-> step, err |-> err]

\* how main takes what a lookup came to: a true value, a false one, or an
\* exception
Outcome(out) ==
    IF out.tag = "raise" THEN "raised"
    ELSE IF Truthy(out.val) THEN "ok" ELSE "failed"

\* what the geocode step of main comes to: geo.get (line 109) raises on a
\* true value that is not an object
GeocodeOutcome(out) ==
    IF Outcome(out) = "ok" /\ out.val.tag # "dict" THEN "raised"
    ELSE Outcome(out)

\* "; ".join(errors) if errors else "": the empty sequence is the empty string
Join(errs) == errs

Init ==
    /\ \E amounts \in Inputs :
          rows = [i \in DOMAIN amounts |-> Row(i, amounts[i])]
    /\ idx = 1
    /\ pc = IF Len(rows) = 0 THEN "write" ELSE "geocode"
    /\ errors = <<>>
    /\ geo = Unset /\ weather = Unset /\ fx = Unset
    /\ geo_ans = Unset /\ weather_ans = Unset /\ fx_ans = Unset
    /\ geo_ret = Unset /\ weather_ret = Unset /\ fx_ret = Unset
    /\ enriched_rows = <<>>
    /\ calls = <<>>
    /\ slept = <<>>
    /\ output = None
    /\ exit_code = None
    /\ req = [r \in 1..MaxReq |-> [pc |-> "idle"]]

\* an exception nothing catches ends the process: no output file, status 1
Uncaught ==
    /\ pc' = "crashed"
    /\ exit_code' = Num(1, 1)
    /\ UNCHANGED <<idx, enriched_rows, slept, output>>

\* lines 96-109: the top of an iteration and the geocode lookup; a false
\* geo leaves the iteration by `continue`, a true one that is not an object
\* makes geo.get raise
GeocodeStep ==
    /\ pc = "geocode"
    /\ \E answer \in GeoAnswers :
         LET out == geocode_city(answer)
         IN  /\ geo_ans' = answer
             /\ calls' = Append(calls, <<idx, "geocode", GeocodeOutcome(out)>>)
             /\ weather' = Unset /\ fx' = Unset
             /\ weather_ans' = Unset /\ fx_ans' = Unset
             /\ weather_ret' = Unset /\ fx_ret' = Unset
             /\ geo_ret' = out
             /\ IF out.tag = "raise"
                THEN /\ Uncaught
                     /\ geo' = Unset
                     /\ errors' = <<>>
                ELSE IF ~Truthy(out.val)
                THEN /\ geo' = out.val
                     /\ errors' = <<Message("geocode", out.err)>>
                     /\ idx' = idx + 1
                     /\ pc' = AfterRecord(idx)
                     /\ UNCHANGED <<enriched_rows, slept, output, exit_code>>
                ELSE IF out.val.tag # "dict"       \* geo.get, line 109
                THEN /\ Uncaught
                     /\ geo' = out.val
                     /\ errors' = <<>>
                ELSE /\ geo' = out.val
                     /\ errors' = <<>>
                     /\ pc' = "weather"
                     /\ UNCHANGED <<idx, enriched_rows, slept, output, exit_code>>
    /\ UNCHANGED <<rows, req>>

\* lines 111-114
WeatherStep ==
    /\ pc = "weather"
    /\ \E answer \in WeatherAnswers :
         LET out == get_weather(answer)
         IN  /\ weather_ans' = answer
             /\ calls' = Append(calls, <<idx, "weather", Outcome(out)>>)
             /\ weather_ret' = out
             /\ IF out.tag = "raise"
                THEN /\ Uncaught
                     /\ UNCHANGED <<weather, errors>>
                ELSE /\ weather' = out.val
                     /\ errors' = IF ~Truthy(out.val)
                                  THEN Append(errors, Message("weather", out.err))
                                  ELSE errors
                     /\ pc' = "fx"
                     /\ UNCHANGED <<idx, enriched_rows, slept, output, exit_code>>
    /\ UNCHANGED <<rows, geo, fx, geo_ans, fx_ans, geo_ret, fx_ret, req>>

\* lines 116-119
FxStep ==
    /\ pc = "fx"
    /\ \E answer \in FxAnswers :
         LET out == convert_fx_to_usd(answer, rows[idx].amount)
         IN  /\ fx_ans' = answer
             /\ calls' = Append(calls, <<idx, "fx", Outcome(out)>>)
             /\ fx_ret' = out
             /\ IF out.tag = "raise"
                THEN /\ Uncaught
                     /\ UNCHANGED <<fx, errors>>
                ELSE /\ fx' = out.val
                     /\ errors' = IF ~Truthy(out.val)
                                  THEN Append(errors, Message("fx", out.err))
                                  ELSE errors
                     /\ pc' = "assemble"
                     /\ UNCHANGED <<idx, enriched_rows, slept, output, exit_code>>
    /\ UNCHANGED <<rows, geo, weather, geo_ans, weather_ans, geo_ret, weather_ret, req>>

\* lines 121-136: the record is appended, then time.sleep(args.sleep)
\* (retrieved_at, the wall clock, is left out of the record); weather.get
\* raises when the snapshot is a true value that is not an object
AssembleStep ==
    /\ pc = "assemble"
    /\ IF Truthy(weather) /\ weather.tag # "dict"
       THEN Uncaught
       ELSE
         /\ enriched_rows' = Append(enriched_rows,
              [city           |-> rows[idx].city,
               country_code   |-> rows[idx].country_code,
               local_currency |-> rows[idx].local_currency,
               amount         |-> rows[idx].amount,
               latitude       |-> Get(geo, "latitude"),
               longitude      |-> Get(geo, "longitude"),
               temperature_c  |-> IF Truthy(weather) THEN Get(weather, "temperature") ELSE None,
               windspeed_m_s  |-> IF Truthy(weather) THEN Get(weather, "windspeed") ELSE None,
               fx_rate_to_usd |-> IF Truthy(fx) THEN Get(fx, "fx_rate_to_usd") ELSE None,
               amount_usd     |-> IF Truthy(fx) THEN Get(fx, "amount_usd") ELSE None,
               errors         |-> Join(errors)])
         /\ slept' = Append(slept, idx)
         /\ idx' = idx + 1
         /\ pc' = AfterRecord(idx)
         /\ UNCHANGED <<output, exit_code>>
    /\ UNCHANGED <<rows, errors, geo, weather, fx, geo_ans, weather_ans, fx_ans,
                   geo_ret, weather_ret, fx_ret, calls, req>>

\* lines 140-155: the output file is written and main returns 0
WriteOutput ==
    /\ pc = "write"
    /\ output' = List(enriched_rows)
    /\ exit_code' = Num(0, 1)
    /\ pc' = "done"
    /\ UNCHANGED <<rows, idx, errors, geo, weather, fx, geo_ans, weather_ans, fx_ans,
                   geo_ret, weather_ret, fx_ret, enriched_rows, calls, slept, req>>

Next ==
    \/ GeocodeStep
    \/ WeatherStep
    \/ FxStep
    \/ AssembleStep
    \/ WriteOutput

Spec == Init /\ [][Next]_vars

(* ------------------------- the proxy service -------------------------- *)

\* what an upstream call of a handler may come to: a transport failure
\* (httpx.RequestError, requests.RequestException) or an answer with a
\* status and a body; a body that is not JSON at all has tag "notjson"
NetErr(msg) == [tag |-> "neterr", msg |-> msg]

Http(status, body) == [tag |-> "http", status |-> status, body |-> body]

NotJson == [tag |-> "notjson"]

ErrorBody == [tag |-> "dict", keys |-> {"message"}, message |-> Str("error")]

Coordinates == [tag |-> "dict", keys |-> {"lat", "lon"},
                lat |-> Num(51, 1), lon |-> Num(0, 1)]

GeoUpstream ==
    {NetErr("ConnectError")}
    \cup {Http(s, ErrorBody) : s \in {401, 500}}
    \cup {Http(200, b) : b \in {List(<<>>), List(<<Coordinates>>), ErrorBody, NotJson}}

Conditions == [tag |-> "dict", keys |-> {"main", "weather"},
               main |-> [tag |-> "dict", keys |-> {"temp"}, temp |-> Num(18, 1)],
               weather |-> List(<<[tag |-> "dict", keys |-> {"description"},
                                   description |-> Str("clear sky")]>>)]

WeatherUpstream ==
    {NetErr("ConnectError")}
    \cup {Http(s, ErrorBody) : s \in {404, 500}}
    \cup {Http(200, b) : b \in {Conditions, ErrorBody, NotJson}}

Profile == [tag |-> "dict",
            keys |-> {"login", "name", "public_repos", "followers", "following"},
            login |-> Str("octocat"), name |-> Str("The Octocat"),
            public_repos |-> Num(8, 1), followers |-> Num(9, 1), following |-> Num(3, 1)]

\* a profile whose display name is not set
Nameless == [tag |-> "dict",
             keys |-> {"login", "public_repos", "followers", "following"},
             login |-> Str("ghost"), name |-> None,
             public_repos |-> Num(0, 1), followers |-> Num(0, 1), following |-> Num(0, 1)]

GithubUpstream ==
    {NetErr("ConnectionError")}
    \cup {Http(s, ErrorBody) : s \in {403, 404, 500}}
    \cup {Http(200, b) : b \in {Profile, Nameless, List(<<>>), NotJson}}

Cities == {"London"}

Usernames == {"octocat"}

\* raise HTTPException(status_code, detail): FastAPI answers with that status
\* and the detail; `cause` is the exception text put into the detail, if any
HTTPException(status_code, detail, cause) ==
    [kind |-> "HTTPException", status |-> status_code, detail |-> detail,
     cause |-> cause]

\* an exception no handler catches: the server answers 500 with the fixed
\* text "Internal Server Error"
Unhandled(exc) ==
    [kind |-> "unhandled", status |-> 500, detail |-> "Internal Server Error",
     cause |-> None, exc |-> exc]

\* a returned dict: status 200 with the dict as the body
Returned(body) == [kind |-> "body", status |-> 200, body |-> body]

\* lines 28-46 of the weather handler: the answer to give, or the
\* coordinates to go on with
proxy_geo(up) ==
    IF up.tag = "neterr"
    THEN HTTPException(502, "Geo API unreachable: ", Str(up.msg))
    ELSE IF up.status # 200
    THEN HTTPException(up.status, "Error fetching coordinates", None)
    ELSE IF up.body.tag = "notjson" THEN Unhandled("JSONDecodeError")
    ELSE IF ~Truthy(up.body) THEN HTTPException(404, "Invalid city name", None)
    ELSE IF up.body.tag # "list" THEN Unhandled("KeyError")
    ELSE [kind |-> "coordinates", lat |-> up.body.items[1].lat,
          lon |-> up.body.items[1].lon]

\* the weather handler answering 502 to every upstream status but 200
proxy_weather_502(city, up) ==
    IF up.tag = "neterr"
    THEN HTTPException(502, "Weather API unreachable: ", Str(up.msg))
    ELSE IF up.status # 200
    THEN HTTPException(502, "Error fetching weather data", None)
    ELSE IF up.body.tag = "notjson" THEN Unhandled("JSONDecodeError")
    ELSE IF "main" \notin up.body.keys THEN Unhandled("KeyError")
    ELSE Returned([city |-> city,
                   temperature |-> up.body.main.temp,
                   weather_description |-> up.body.weather.items[1].description])

\* lines 48-68 of the weather handler
proxy_weather(city, up) ==
    IF up.tag = "neterr"
    THEN HTTPException(502, "Weather API unreachable: ", Str(up.msg))
    ELSE IF up.status # 200
    THEN HTTPException(up.status, "Error fetching weather data", None)
    ELSE IF up.body.tag = "notjson" THEN Unhandled("JSONDecodeError")
    ELSE IF "main" \notin up.body.keys THEN Unhandled("KeyError")
    ELSE Returned([city |-> city,
                   temperature |-> up.body.main.temp,
                   weather_description |-> up.body.weather.items[1].description])

\* get_github_user: the answers it may give.  On a status other than 200,
\* 403 and 404 `data` was never bound and the return statement raises
\* UnboundLocalError; response.json() on a body that is not JSON raises an
\* exception that is a RequestException in some versions of requests only
get_github_user(up) ==
    IF up.tag = "neterr"
    THEN {HTTPException(500, "External API request failed: ", Str(up.msg))}
    ELSE IF up.status = 200
    THEN IF up.body.tag = "notjson"
         THEN {HTTPException(500, "External API request failed: ", Str("JSONDecodeError")),
               Unhandled("JSONDecodeError")}
         ELSE IF up.body.tag # "dict" THEN {Unhandled("AttributeError")}
         ELSE {Returned([login        |-> Get(up.body, "login"),
                         name         |-> Get(up.body, "name"),
                         public_repos |-> Get(up.body, "public_repos"),
                         followers    |-> Get(up.body, "followers"),
                         following    |-> Get(up.body, "following")])}
    ELSE IF up.status = 403
    THEN {HTTPException(403, "API rate limit exceeded", None)}
    ELSE IF up.status = 404
    THEN {HTTPException(404, "User not found", None)}
    ELSE {Unhandled("UnboundLocalError")}

\* no batch run takes place beside the service
ProxyInit ==
    /\ rows = <<>>
    /\ idx = 1
    /\ pc = "off"
    /\ errors = <<>>
    /\ geo = Unset /\ weather = Unset /\ fx = Unset
    /\ geo_ans = Unset /\ weather_ans = Unset /\ fx_ans = Unset
    /\ geo_ret = Unset /\ weather_ret = Unset /\ fx_ret = Unset
    /\ enriched_rows = <<>>
    /\ calls = <<>>
    /\ slept = <<>>
    /\ output = None
    /\ exit_code = None
    /\ req = [r \in 1..MaxReq |-> [pc |-> "idle"]]

\* GET /get_weather/{city} arrives; the handler runs up to its first await
WeatherRequest(r) ==
    /\ req[r].pc = "idle"
    /\ \E city \in Cities :
         req' = [req EXCEPT ![r] = [pc |-> "geo_call", handler |-> "get_weather",
                                    city |-> city]]
    /\ UNCHANGED batch_vars

\* the geocoding call comes back: lines 35-46
GeoReturns(r) ==
    /\ req[r].pc = "geo_call"
    /\ \E up \in GeoUpstream :
         LET out == proxy_geo(up)
         IN  req' = [req EXCEPT ![r] =
                       IF out.kind = "coordinates"
                       THEN [pc |-> "weather_call", handler |-> "get_weather",
                             city |-> req[r].city, geo_up |-> up,
                             lat |-> out.lat, lon |-> out.lon]
                       ELSE [pc |-> "responded", handler |-> "get_weather",
                             city |-> req[r].city, geo_up |-> up,
                             weather_up |-> None, response |-> out]]
    /\ UNCHANGED batch_vars

\* the weather call comes back: lines 55-68
WeatherReturns(r) ==
    /\ req[r].pc = "weather_call"
    /\ \E up \in WeatherUpstream :
         req' = [req EXCEPT ![r] =
                   [pc |-> "responded", handler |-> "get_weather",
                    city |-> req[r].city, geo_up |-> req[r].geo_up,
                    weather_up |-> up, response |-> proxy_weather(req[r].city, up)]]
    /\ UNCHANGED batch_vars

\* GET /get_github_user?username=... : the whole handler
GithubRequest(r) ==
    /\ req[r].pc = "idle"
    /\ \E username \in Usernames, up \in GithubUpstream :
         \E response \in get_github_user(up) :
            req' = [req EXCEPT ![r] =
                      [pc |-> "responded", handler |-> "get_github_user",
                       username |-> username, up |-> up, response |-> response]]
    /\ UNCHANGED batch_vars

\* the answer has gone to the client
Deliver(r) ==
    /\ req[r].pc = "responded"
    /\ req' = [req EXCEPT ![r] = [pc |-> "idle"]]
    /\ UNCHANGED batch_vars

ProxyNext ==
    \E r \in 1..MaxReq :
        \/ WeatherRequest(r)
        \/ GeoReturns(r)
        \/ WeatherReturns(r)
        \/ GithubRequest(r)
        \/ Deliver(r)

ProxySpec == ProxyInit /\ [][ProxyNext]_vars

(* ----------------------- properties of the batch ---------------------- *)

\* the run is over: main returned, or an exception ended the process
Terminated == pc \in {"done", "crashed"}

\* the rows of the output file (none when the file was never written)
Emitted == IF output = None THEN <<>> ELSE output.items

CallsOf(i) == SelectSeq(calls, LAMBDA c : c[1] = i)

\* the records whose geocode lookup gave main a true value
Geocoded == {i \in 1..Len(rows) : \E k \in 1..Len(calls) : calls[k] = <<i, "geocode", "ok">>}

GeocodeFailed ==
    {i \in 1..Len(rows) :
        \E k \in 1..Len(calls) :
            calls[k][1] = i /\ calls[k][2] = "geocode" /\ calls[k][3] # "ok"}

WeatherFailed ==
    {i \in 1..Len(rows) :
        \E k \in 1..Len(calls) :
            calls[k][1] = i /\ calls[k][2] = "weather" /\ calls[k][3] # "ok"}

RowsOf(i) == {k \in 1..Len(Emitted) : Emitted[k].city = i}

\* C1: when the run is over, the output holds exactly one row for each input
\* record whose geocode lookup succeeded and none for the others, so it has
\* at most as many rows as the input, and as many iff no geocode failed
C1_OneRowPerGeocodedRecord ==
    Terminated =>
        /\ Len(Emitted) = Cardinality(Geocoded)
        /\ \A i \in 1..Len(rows) :
              Cardinality(RowsOf(i)) = IF i \in Geocoded THEN 1 ELSE 0
        /\ Len(Emitted) <= Len(rows)
        /\ (Len(Emitted) = Len(rows)) <=> (GeocodeFailed = {})

\* C2: every record the loop has left, skipped ones included, was followed
\* by exactly one pacing delay
C2_DelayAfterEveryRecord ==
    \A i \in 1..(idx - 1) :
        Cardinality({k \in 1..Len(slept) : slept[k] = i}) = 1

\* C3: no answer of a service ends the run early: the process never dies of
\* an exception, and when main is done every record was attempted, the
\* output file is written and the exit code is 0
C3_NoFailureAbortsBatch ==
    /\ pc # "crashed"
    /\ pc = "done" =>
          /\ exit_code = Num(0, 1)
          /\ output # None
          /\ \A i \in 1..Len(rows) : CallsOf(i) # <<>>

\* C4: when the run is over, every record that geocoded and whose weather
\* lookup failed has a row in the output, with null temperature and
\* windspeed and an error message of the weather step
C4_WeatherFailureKeepsRecord ==
    Terminated =>
        \A i \in Geocoded \cap WeatherFailed :
            \E k \in RowsOf(i) :
                /\ Emitted[k].temperature_c = None
                /\ Emitted[k].windspeed_m_s = None
                /\ Emitted[k].errors # <<>>
                /\ \E e \in 1..Len(Emitted[k].errors) :
                      Emitted[k].errors[e].step = "weather"

\* the FX lookup of the record at hand has been made
FxActed == fx_ans # Unset

\* ... and it returned
FxReturned == FxActed /\ fx_ret.tag = "ret"

\* ... and the record has been assembled since
FxAssembled == FxActed /\ pc \in {"geocode", "write", "done"}

\* the record the FX lookup was made for
FxRow == IF pc \in {"assemble", "crashed"} THEN idx ELSE idx - 1

LastRow == enriched_rows[Len(enriched_rows)]

\* the service call itself failed
CallError(answer) == answer.tag = "exc"

\* the body, or the "info" of the body, is a true JSON value that is not an
\* object
Misshapen(answer) ==
    /\ answer.tag = "ok"
    /\ Truthy(answer.json)
    /\ \/ answer.json.tag # "dict"
       \/ /\ "info" \in answer.json.keys
          /\ Truthy(answer.json.info)
          /\ answer.json.info.tag # "dict"

\* the converted amount of an answer, None when it carries none
ConvertedAmount(answer) ==
    IF answer.tag = "ok" /\ answer.json.tag = "dict" /\ "result" \in answer.json.keys
    THEN answer.json.result ELSE None

\* the explicit rate of an answer, None when it carries none
ExplicitRate(answer) ==
    IF /\ answer.tag = "ok" /\ answer.json.tag = "dict"
       /\ "info" \in answer.json.keys
       /\ answer.json.info.tag = "dict"
       /\ "rate" \in answer.json.info.keys
    THEN answer.json.info.rate ELSE None

\* converted / original can be taken: both are numbers, the second not 0
Derivable(answer, amount) ==
    /\ ConvertedAmount(answer) # None
    /\ ConvertedAmount(answer).tag = "num"
    /\ amount.n # 0

\* a rate is to be had: an explicit one, or converted / original
HasRate(answer, amount) ==
    ExplicitRate(answer) # None \/ Derivable(answer, amount)

\* the FX step failed: no payload, an fx error appended, null fields in
\* the row once it is assembled
FxFailed ==
    /\ fx_ret.tag = "ret"
    /\ fx_ret.val = None
    /\ errors # <<>>
    /\ errors[Len(errors)] = Message("fx", fx_ret.err)
    /\ FxAssembled =>
          /\ LastRow.fx_rate_to_usd = None
          /\ LastRow.amount_usd = None
          /\ LastRow.errors = errors

\* the FX step yielded a converted amount and a rate, and no fx error
FxYielded ==
    /\ fx_ret.tag = "ret"
    /\ fx_ret.val # None
    /\ fx_ret.val.fx_rate_to_usd # None
    /\ fx_ret.val.amount_usd # None
    /\ \A e \in 1..Len(errors) : errors[e].step # "fx"
    /\ FxAssembled =>
          /\ LastRow.fx_rate_to_usd = fx_ret.val.fx_rate_to_usd
          /\ LastRow.amount_usd = fx_ret.val.amount_usd
          /\ LastRow.errors = errors

\* C5 as stated: an FX step that returned has failed exactly when the call
\* erred or the answer carries neither a converted amount nor a rate to be
\* had, and has yielded both otherwise
C5_FxFailsOnlyWhenBothMissing ==
    FxReturned =>
        IF \/ CallError(fx_ans)
           \/ /\ ConvertedAmount(fx_ans) = None
              /\ ~HasRate(fx_ans, rows[FxRow].amount)
        THEN FxFailed
        ELSE FxYielded

\* C5 as amended: the FX step fails exactly when the call erred or the
\* answer lacks a converted amount or lacks a rate (explicit, or converted /
\* original); it yields both otherwise; a body, or an "info", that is a
\* true value and not an object makes it raise
C5_FxFailsWhenEitherMissing ==
    FxActed =>
        IF Misshapen(fx_ans) THEN fx_ret.tag = "raise" /\ pc = "crashed"
        ELSE IF \/ CallError(fx_ans)
                \/ ConvertedAmount(fx_ans) = None
                \/ ~HasRate(fx_ans, rows[FxRow].amount)
        THEN FxFailed
        ELSE FxYielded

\* an explicit rate without a converted amount: the step failed and the
\* row went out with both fields null
C5_Witness ==
    /\ FxAssembled
    /\ ~CallError(fx_ans)
    /\ ConvertedAmount(fx_ans) = None
    /\ ExplicitRate(fx_ans) # None
    /\ LastRow.fx_rate_to_usd = None
    /\ LastRow.amount_usd = None
    /\ \E e \in 1..Len(LastRow.errors) : LastRow.errors[e].step = "fx"

PayloadXorError(ret) ==
    (ret # Unset /\ ret.tag = "ret") =>
        (ret.val # None) # (ret.err # None)

\* C7: whenever one of the three lookups returns, it returns a payload or an
\* error message, exactly one of the two
C7_PayloadXorError ==
    /\ PayloadXorError(geo_ret)
    /\ PayloadXorError(weather_ret)
    /\ PayloadXorError(fx_ret)

\* the lookups made for record i, in their order
Apis(i) == [k \in 1..Len(CallsOf(i)) |-> CallsOf(i)[k][2]]

\* C10: when the run is over, every record had its geocode lookup first and
\* once; a record that geocoded had then one weather and one FX lookup,
\* whatever the weather lookup came to; a record that did not had no other
\* lookup
C10_CallOrder ==
    Terminated =>
        \A i \in 1..Len(rows) :
            IF i \in Geocoded
            THEN Apis(i) = <<"geocode", "weather", "fx">>
            ELSE Apis(i) = <<"geocode">>

(* ---------------------- properties of the proxy ----------------------- *)

Answered(handler) ==
    {r \in 1..MaxReq : req[r].pc = "responded" /\ req[r].handler = handler}

\* C8: the user-profile handler answers upstream 200 with the five profile
\* fields, 403 with 403 and a rate-limit message, 404 with 404 and a
\* not-found message, and any other status or a network failure with a 500
\* whose message holds the underlying error
C8_GithubMapping ==
    \A r \in Answered("get_github_user") :
        LET up   == req[r].up
            resp == req[r].response
        IN  IF up.tag = "neterr"
            THEN /\ resp.kind = "HTTPException" /\ resp.status = 500
                 /\ resp.cause = Str(up.msg)
            ELSE IF up.status = 200
            THEN up.body.tag = "dict" =>
                    /\ resp.kind = "body"
                    /\ resp.body = [login        |-> Get(up.body, "login"),
                                    name         |-> Get(up.body, "name"),
                                    public_repos |-> Get(up.body, "public_repos"),
                                    followers    |-> Get(up.body, "followers"),
                                    following    |-> Get(up.body, "following")]
            ELSE IF up.status = 403
            THEN /\ resp.kind = "HTTPException" /\ resp.status = 403
                 /\ resp.detail = "API rate limit exceeded"
            ELSE IF up.status = 404
            THEN /\ resp.kind = "HTTPException" /\ resp.status = 404
                 /\ resp.detail = "User not found"
            ELSE /\ resp.kind = "HTTPException" /\ resp.status = 500
                 /\ resp.cause # None

\* C9: the weather handler answers a geocoding network failure with a 502
\* "unreachable" error, a geocoding status other than 200 with that status,
\* an empty geocoding result with 404 "Invalid city name", a weather network
\* failure with a 502 "unreachable" error, a weather status other than 200
\* with that status; a body with city, temperature and description is
\* returned only when both calls answered 200, and the weather call is made
\* only then after a 200 from geocoding
C9_WeatherMapping ==
    /\ \A r \in 1..MaxReq :
          req[r].pc = "weather_call" =>
              req[r].geo_up.tag = "http" /\ req[r].geo_up.status = 200
    /\ \A r \in Answered("get_weather") :
        LET g    == req[r].geo_up
            w    == req[r].weather_up
            resp == req[r].response
        IN  /\ g.tag = "neterr" =>
                  /\ resp.kind = "HTTPException" /\ resp.status = 502
                  /\ resp.detail = "Geo API unreachable: "
                  /\ resp.cause = Str(g.msg)
            /\ (g.tag = "http" /\ g.status # 200) =>
                  resp.kind = "HTTPException" /\ resp.status = g.status
            /\ (g.tag = "http" /\ g.status = 200 /\ g.body = List(<<>>)) =>
                  /\ resp.kind = "HTTPException" /\ resp.status = 404
                  /\ resp.detail = "Invalid city name"
            /\ (w # None /\ w.tag = "neterr") =>
                  /\ resp.kind = "HTTPException" /\ resp.status = 502
                  /\ resp.detail = "Weather API unreachable: "
                  /\ resp.cause = Str(w.msg)
            /\ (w # None /\ w.tag = "http" /\ w.status # 200) =>
                  resp.kind = "HTTPException" /\ resp.status = w.status
            /\ resp.kind = "body" =>
                  /\ g.tag = "http" /\ g.status = 200
                  /\ w # None /\ w.tag = "http" /\ w.status = 200
                  /\ resp.status = 200
                  /\ resp.body = [city |-> req[r].city,
                                  temperature |-> w.body.main.temp,
                                  weather_description |->
                                      w.body.weather.items[1].description]

\* geocoding answered 200 with coordinates, the weather service answered
\* 500, and that 500 went to the client
C9_Witness ==
    \E r \in Answered("get_weather") :
        /\ req[r].geo_up.tag = "http" /\ req[r].geo_up.status = 200
        /\ req[r].weather_up # None
        /\ req[r].weather_up.tag = "http"
        /\ req[r].weather_up.status = 500
        /\ req[r].response.status = 500

====
